---- MODULE Spec2Model ----
(***************************************************************************)
(* cloudsplaining/scan/managed_policy_detail.py: ManagedPolicyDetails (the *)
(* collection built from the Policies section of an authorization dump)    *)
(* and ManagedPolicy (one policy, its exclusion flag, its default-version  *)
(* document, its attachment cross-reference and its two reports).          *)
(*                                                                         *)
(* Data representation.  A Python str that is pattern-matched (policy      *)
(* name, policy id, path, arn, glob pattern) is a sequence of text         *)
(* fragments whose concatenation is the string; a glob pattern ends in the *)
(* fragment "*" when it ends in a star.  A Python value that may be None   *)
(* or absent is <<>> when None/absent and <<v>> otherwise.  A Python dict  *)
(* with a fixed key set is a record, the empty dict {} is <<>>, and an     *)
(* insertion-ordered dict of principals is the sequence of its entries.    *)
(***************************************************************************)
EXTENDS Integers, Sequences, FiniteSets, TLC

VARIABLES
    state,           \* lifecycle of the ManagedPolicyDetails object: "none", "constructed", "failed"
    policy_details,  \* ManagedPolicyDetails.policy_details (the retained ManagedPolicy objects)
    iam_data,        \* ManagedPolicyDetails.iam_data
    held,            \* reference (index into policy_details) the caller got from get_policy_detail
    mp,              \* a ManagedPolicy constructed directly by the caller: <<>> or <<object>>
    call,            \* the latest call: its name and arguments
    ret,             \* what the latest call returned or raised
    lastSet,         \* history: argument of the latest set_iam_data, <<>> before the first
    returned         \* history: arn -> set of references get_policy_detail has returned for it

vars == <<state, policy_details, iam_data, held, mp, call, ret, lastSet, returned>>

----------------------------------------------------------------------------
(* Bounds *)

MaxRecords == 2      \* records passed to ManagedPolicyDetails(...)
MaxPrincipals == 2   \* principals in one inventory snapshot, over the three categories

----------------------------------------------------------------------------
(* Collaborators that live outside managed_policy_detail.py *)

\* fnmatch-style match of a string against one pattern: a trailing star
\* matches any rest, anything else must be equal.
GlobMatch(s, pattern) ==
    IF Len(pattern) > 0 /\ pattern[Len(pattern)] = "*"
    THEN /\ Len(s) >= Len(pattern) - 1
         /\ SubSeq(s, 1, Len(pattern) - 1) = SubSeq(pattern, 1, Len(pattern) - 1)
    ELSE s = pattern

\* cloudsplaining.shared.exclusions.is_name_excluded(name, pattern)
is_name_excluded(name, pattern) == GlobMatch(name, pattern)

\* isinstance(exclusions, Exclusions)
IsExclusions(exclusions) == exclusions.type = "Exclusions"

\* Exclusions.is_policy_excluded(identifier): some configured rule matches
is_policy_excluded(exclusions, identifier) ==
    \E rule \in exclusions.policies : is_name_excluded(identifier, rule)

\* cloudsplaining.shared.utils.is_aws_managed(arn): arn:aws:iam::aws:policy/...
is_aws_managed(arn) == GlobMatch(arn, <<"arn:aws:iam::", "aws", ":policy/", "*">>)

\* The report categories, in the order the reports list them
BaselineCategories ==
    <<"PrivilegeEscalation", "DataExfiltration", "ResourceExposure",
      "ServiceWildcard", "CredentialsExposure">>

ExtendedCategories == Append(BaselineCategories, "InfrastructureModification")

\* cloudsplaining.shared.constants.ISSUE_SEVERITY: the fixed label of a category
ISSUE_SEVERITY(category) ==
    CASE category = "PrivilegeEscalation" -> "privilegeescalation"
      [] category = "DataExfiltration" -> "dataexfiltration"
      [] category = "ResourceExposure" -> "resourceexposure"
      [] category = "ServiceWildcard" -> "servicewildcard"
      [] category = "CredentialsExposure" -> "credentialsexposure"
      [] category = "InfrastructureModification" -> "infrastructuremodification"

\* cloudsplaining.shared.constants.RISK_DEFINITION: the static text of a category
RISK_DEFINITION(category) == <<"definition of ", category>>

\* PolicyDocument(document, exclusions, flags): the risk classifier, opaque here
PolicyDocument(document) == [Document |-> document]

\* The findings the classifier reports for a document, per findings property.
\* The document "ReadOnly" has none; any other document has one per property.
\* PrivilegeEscalation findings are dicts with a "type".
DocumentFindings(policy_document, property) ==
    IF policy_document.Document = "ReadOnly"
    THEN <<>>
    ELSE IF property = "allows_privilege_escalation"
         THEN <<[type |-> "CreateAccessKey", doc |-> policy_document.Document]>>
         ELSE <<[action |-> property, doc |-> policy_document.Document]>>

----------------------------------------------------------------------------
(* str.lower() on the strings a severity filter holds *)

lower(x) ==
    CASE x = "PrivilegeEscalation" -> "privilegeescalation"
      [] x = "PRIVILEGEESCALATION" -> "privilegeescalation"
      [] x = "InfrastructureModification" -> "infrastructuremodification"
      [] x = "DataExfiltration" -> "dataexfiltration"
      [] OTHER -> x

----------------------------------------------------------------------------
(* Inputs *)

None == <<>>
Some(v) == <<v>>

NameAdmin == <<"AdministratorAccess">>
NameCustom == <<"custom1">>
IdOne == <<"ANPA1">>
IdTwo == <<"ANPA2">>
ArnAws == <<"arn:aws:iam::", "aws", ":policy/", "AdministratorAccess">>
ArnCustomer == <<"arn:aws:iam::", "123456789012", ":policy/", "custom1">>

PathRoot == <<"/">>
PathServiceRole == <<"/", "aws-service-role", "/foo/">>
PathServiceRoleNoSlash == <<"aws-service-role", "/foo/">>
PathTeam == <<"/", "team/", "aws-service-role", "/">>

Version(document, isDefault) == [Document |-> document, IsDefaultVersion |-> isDefault]

\* PolicyVersionList values: key absent, empty, no default, a default after a
\* non-default, two defaults.  IsDefaultVersion is "True", "False" or "None"
\* (the key is absent, so .get returns None).
VersionListsWithDefault ==
    { Some(<<Version("ReadOnly", "False"), Version("Admin", "True")>>),
      Some(<<Version("Admin", "None"), Version("ReadOnly", "True"), Version("Write", "True")>>) }

VersionListsWithoutDefault ==
    { None, Some(<<>>), Some(<<Version("Admin", "False"), Version("Write", "None")>>) }

PolicyDetail(name, id, arn, path, versions) ==
    [PolicyName |-> name, PolicyId |-> id, Arn |-> arn, Path |-> path,
     PolicyVersionList |-> versions]

\* The exclusion configurations: no rule, a name rule, an id rule, a path
\* glob; and an object that is no Exclusions.
Exclusions(policies) == [type |-> "Exclusions", policies |-> policies]
NotExclusions == [type |-> "dict", policies |-> {}]

ExclusionInputs ==
    { Exclusions({}),
      Exclusions({NameAdmin}),
      Exclusions({IdTwo}),
      Exclusions({<<"/", "team/", "*">>}) }

\* severity arguments: None, or a list of strings
SeverityInputs ==
    { None,
      Some(<<>>),
      Some(<<"PrivilegeEscalation">>),
      Some(<<"bogus", "infrastructuremodification", "DataExfiltration">>) }

\* Principals of an inventory snapshot: one references the first policy id as
\* AWS-managed only, one as customer-managed only, one references both ids
\* under both keys.
Principal(id, name, aws, customer) ==
    [id |-> id, name |-> name,
     aws_managed_policies |-> aws, customer_managed_policies |-> customer]

Principals ==
    { Principal("p1", "alice", {IdOne}, {}),
      Principal("p2", "bob", {}, {IdOne}),
      Principal("p3", "carol", {IdOne, IdTwo}, {IdOne, IdTwo}) }

\* Sequences of distinct elements of S, of length at most n
Last(s) == s[Len(s)]
Front(s) == SubSeq(s, 1, Len(s) - 1)

RECURSIVE DistinctSeqs(_, _)
DistinctSeqs(S, n) ==
    IF n = 0 THEN {<<>>}
    ELSE {<<>>} \cup UNION { { <<x>> \o t : t \in { u \in DistinctSeqs(S, n - 1) :
                                                  \A i \in 1..Len(u) : u[i] # x } } : x \in S }

\* Inventory snapshots: {roles, groups, users} -> ordered mapping of principals,
\* with at most n principals in all
InventoriesUpTo(n) ==
    { [roles |-> r, groups |-> g, users |-> u] :
        <<r, g, u>> \in { t \in DistinctSeqs(Principals, n) \X DistinctSeqs(Principals, n)
                                  \X DistinctSeqs(Principals, n) :
                          Len(t[1]) + Len(t[2]) + Len(t[3]) <= n } }

Inventories == InventoriesUpTo(MaxPrincipals)

----------------------------------------------------------------------------
(* Outcomes of a call *)

Return(v) == [value |-> v]
Raise(e) == [raise |-> e]
Raised(r) == "raise" \in DOMAIN r

----------------------------------------------------------------------------
(* class ManagedPolicy *)

\* the iam_data both constructors start from
EmptyIamData == [groups |-> <<>>, users |-> <<>>, roles |-> <<>>]

\* ManagedPolicy._is_excluded
IsExcluded(policy_name, policy_id, path, exclusions) ==
    \/ is_policy_excluded(exclusions, policy_name)
    \/ is_policy_excluded(exclusions, policy_id)
    \/ is_policy_excluded(exclusions, path)
    \/ is_name_excluded(path, <<"/", "aws-service-role", "*">>)

\* variant: the last version flagged default wins
RECURSIVE PolicyDocumentOfLast(_)
PolicyDocumentOfLast(policy_version_list) ==
    IF policy_version_list = <<>>
    THEN Raise("Exception")
    ELSE IF Last(policy_version_list).IsDefaultVersion = "True"
         THEN Return(PolicyDocument(Last(policy_version_list).Document))
         ELSE PolicyDocumentOfLast(Front(policy_version_list))

\* ManagedPolicy._policy_document: the first version whose IsDefaultVersion is
\* True, or an exception
RECURSIVE PolicyDocumentOf(_)
PolicyDocumentOf(policy_version_list) ==
    IF policy_version_list = <<>>
    THEN Raise("Exception")
    ELSE IF Head(policy_version_list).IsDefaultVersion = "True"
         THEN Return(PolicyDocument(Head(policy_version_list).Document))
         ELSE PolicyDocumentOf(Tail(policy_version_list))

\* policy_detail.get(key): None when the record has no such key
Get(policy_detail, key) ==
    IF key \in DOMAIN policy_detail THEN Some(policy_detail[key]) ELSE None

\* ManagedPolicy.__init__
ManagedPolicyInit(policy_detail, exclusions, severity) ==
    IF ~IsExclusions(exclusions)
    THEN Raise("Exception")
    ELSE LET policy_version_list ==
                 IF policy_detail.PolicyVersionList = None
                 THEN <<>>
                 ELSE policy_detail.PolicyVersionList[1]
             document == PolicyDocumentOf(policy_version_list)
         IN  IF Raised(document)
             THEN document
             ELSE Return(
                    [policy_detail |-> policy_detail,
                     policy_name |-> policy_detail.PolicyName,
                     policy_id |-> policy_detail.PolicyId,
                     arn |-> policy_detail.Arn,
                     path |-> policy_detail.Path,
                     default_version_id |-> Get(policy_detail, "DefaultVersionId"),
                     attachment_count |-> Get(policy_detail, "AttachmentCount"),
                     permissions_boundary_usage_count |->
                         Get(policy_detail, "PermissionsBoundaryUsageCount"),
                     is_attachable |-> Get(policy_detail, "IsAttachable"),
                     create_date |-> Get(policy_detail, "CreateDate"),
                     update_date |-> Get(policy_detail, "UpdateDate"),
                     iam_data |-> EmptyIamData,
                     exclusions |-> exclusions,
                     is_excluded |-> IsExcluded(policy_detail.PolicyName,
                                                policy_detail.PolicyId,
                                                policy_detail.Path, exclusions),
                     policy_version_list |-> policy_version_list,
                     policy_document |-> document.value,
                     severity |-> IF severity = None THEN <<>> ELSE severity[1]])

\* ManagedPolicy.set_iam_data
PolicySetIamData(self, inventory) == [self EXCEPT !.iam_data = inventory]

\* variant: every policy is taken as customer-managed
ManagedByCustomerOnly(self) == "Customer"

\* ManagedPolicy.managed_by
managed_by(self) == IF is_aws_managed(self.arn) THEN "AWS" ELSE "Customer"

\* ManagedPolicy.getAttached: the loop over the remaining principal types,
\* at principal number k of the first of them
RECURSIVE GetAttachedLoop(_, _, _, _)
GetAttachedLoop(self, principalTypes, k, attached) ==
    IF principalTypes = <<>>
    THEN attached
    ELSE LET principalType == Head(principalTypes)
             principals == self.iam_data[principalType]
         IN  IF k > Len(principals)
             THEN GetAttachedLoop(self, Tail(principalTypes), 1, attached)
             ELSE IF self.is_excluded
                  THEN <<>>
                  ELSE LET managedPolicies ==
                               IF managed_by(self) = "AWS"
                               THEN principals[k].aws_managed_policies
                               ELSE IF managed_by(self) = "Customer"
                                    THEN principals[k].customer_managed_policies
                                    ELSE {}
                       IN  GetAttachedLoop(self, principalTypes, k + 1,
                               IF self.policy_id \in managedPolicies
                               THEN [attached EXCEPT ![principalType] =
                                         Append(@, principals[k].name)]
                               ELSE attached)

getAttached(self) ==
    GetAttachedLoop(self, <<"roles", "groups", "users">>, 1,
                    [roles |-> <<>>, groups |-> <<>>, users |-> <<>>])

\* ManagedPolicy.getFindingLinks
getFindingLinks(findings) ==
    [t \in { findings[i].type : i \in 1..Len(findings) } |->
        <<"https://cloudsplaining.readthedocs.io/en/latest/glossary/privilege-escalation/#", t>>]

\* the PolicyDocument property a report reads for a category
FindingsProperty(category) ==
    CASE category = "PrivilegeEscalation" -> "allows_privilege_escalation"
      [] category = "DataExfiltration" -> "allows_data_exfiltration_actions"
      [] category = "ResourceExposure" -> "permissions_management_without_constraints"
      [] category = "ServiceWildcard" -> "service_wildcard"
      [] category = "CredentialsExposure" -> "credentials_exposure"
      [] category = "InfrastructureModification" -> "infrastructure_modification"

\* variant: the filter entries are compared as given
SeverityAdmitsAsGiven(self, category) ==
    \/ ISSUE_SEVERITY(category) \in { self.severity[i] : i \in 1..Len(self.severity) }
    \/ self.severity = <<>>

\* ISSUE_SEVERITY[c] in [x.lower() for x in self.severity] or not self.severity
SeverityAdmits(self, category) ==
    \/ ISSUE_SEVERITY(category) \in { lower(self.severity[i]) : i \in 1..Len(self.severity) }
    \/ self.severity = <<>>

\* the "findings" expression of one category of a report
CategoryFindings(self, category) ==
    IF SeverityAdmits(self, category)
    THEN DocumentFindings(self.policy_document, FindingsProperty(category))
    ELSE <<>>

\* one category of a report
CategoryEntry(self, category) ==
    [severity |-> ISSUE_SEVERITY(category),
     description |-> RISK_DEFINITION(category),
     findings |-> CategoryFindings(self, category)]

\* the fields both reports start with
ReportHead(self) ==
    [PolicyName |-> self.policy_name,
     PolicyId |-> self.policy_id,
     Arn |-> self.arn,
     Path |-> self.path,
     DefaultVersionId |-> self.default_version_id,
     AttachmentCount |-> self.attachment_count,
     AttachedTo |-> getAttached(self),
     IsAttachable |-> self.is_attachable,
     CreateDate |-> self.create_date,
     UpdateDate |-> self.update_date,
     PolicyVersionList |-> self.policy_version_list,
     PrivilegeEscalation |->
         [severity |-> ISSUE_SEVERITY("PrivilegeEscalation"),
          description |-> RISK_DEFINITION("PrivilegeEscalation"),
          findings |-> CategoryFindings(self, "PrivilegeEscalation"),
          links |-> getFindingLinks(CategoryFindings(self, "PrivilegeEscalation"))],
     DataExfiltration |-> CategoryEntry(self, "DataExfiltration"),
     ResourceExposure |-> CategoryEntry(self, "ResourceExposure"),
     ServiceWildcard |-> CategoryEntry(self, "ServiceWildcard"),
     CredentialsExposure |-> CategoryEntry(self, "CredentialsExposure"),
     is_excluded |-> self.is_excluded]

\* ManagedPolicy.json
json(self) == ReportHead(self)

\* ManagedPolicy.json_large
json_large(self) ==
    ReportHead(self) @@
    [c \in {"InfrastructureModification"} |-> CategoryEntry(self, c)]

----------------------------------------------------------------------------
(* class ManagedPolicyDetails *)

\* variant: only the pattern with the leading slash
IsServiceRolePathSlashOnly(this_policy_path) ==
    is_name_excluded(this_policy_path, <<"/", "aws-service-role", "*">>)

\* the two unconditional checks of ManagedPolicyDetails.__init__
IsServiceRolePath(this_policy_path) ==
    \/ is_name_excluded(this_policy_path, <<"aws-service-role", "*">>)
    \/ is_name_excluded(this_policy_path, <<"/", "aws-service-role", "*">>)

\* variant: only the policy name is checked against the rules
IsRuleExcludedNameOnly(policy_detail, exclusions) ==
    is_policy_excluded(exclusions, policy_detail.PolicyName)

\* the rule check of ManagedPolicyDetails.__init__
IsRuleExcluded(policy_detail, exclusions) ==
    \/ is_policy_excluded(exclusions, policy_detail.PolicyName)
    \/ is_policy_excluded(exclusions, policy_detail.PolicyId)
    \/ is_policy_excluded(exclusions, policy_detail.Path)

\* variant: a record whose ManagedPolicy cannot be built is skipped
RECURSIVE InitLoopSkipFailed(_, _, _, _)
InitLoopSkipFailed(records, exclusions, severity, retained) ==
    IF records = <<>>
    THEN Return(retained)
    ELSE LET policy_detail == Head(records)
             r == ManagedPolicyInit(policy_detail, exclusions, severity)
         IN  IF \/ IsServiceRolePath(policy_detail.Path)
                \/ IsRuleExcluded(policy_detail, exclusions)
                \/ Raised(r)
             THEN InitLoopSkipFailed(Tail(records), exclusions, severity, retained)
             ELSE InitLoopSkipFailed(Tail(records), exclusions, severity,
                                     Append(retained, r.value))

\* the loop of ManagedPolicyDetails.__init__ over the records still to do;
\* retained is self.policy_details so far
RECURSIVE InitLoop(_, _, _, _)
InitLoop(records, exclusions, severity, retained) ==
    IF records = <<>>
    THEN Return(retained)
    ELSE LET policy_detail == Head(records)
         IN  IF IsServiceRolePath(policy_detail.Path)
             THEN InitLoop(Tail(records), exclusions, severity, retained)
             ELSE IF IsRuleExcluded(policy_detail, exclusions)
                  THEN InitLoop(Tail(records), exclusions, severity, retained)
                  ELSE LET r == ManagedPolicyInit(policy_detail, exclusions, severity)
                       IN  IF Raised(r)
                           THEN r
                           ELSE InitLoop(Tail(records), exclusions, severity,
                                         Append(retained, r.value))

\* ManagedPolicyDetails.__init__: the retained policies, or the exception
ManagedPolicyDetailsInit(records, exclusions, severity) ==
    IF ~IsExclusions(exclusions)
    THEN Raise("Exception")
    ELSE InitLoop(records, exclusions, severity, <<>>)

\* ManagedPolicyDetails.get_policy_detail: a reference to the first policy
\* at or after position k whose arn is the one asked for
RECURSIVE GetPolicyDetailFrom(_, _, _)
GetPolicyDetailFrom(details, arn, k) ==
    IF k > Len(details)
    THEN Raise("NotFoundException")
    ELSE IF details[k].arn = arn
         THEN Return(k)
         ELSE GetPolicyDetailFrom(details, arn, k + 1)

\* variant: the last policy with the arn is returned
GetPolicyDetailLast(details, arn) ==
    LET matches == { k \in 1..Len(details) : details[k].arn = arn }
    IN  IF matches = {}
        THEN Raise("NotFoundException")
        ELSE Return(CHOOSE k \in matches : \A j \in matches : j <= k)

get_policy_detail(details, arn) == GetPolicyDetailFrom(details, arn, 1)

\* variant: the inventory is not pushed to the policies
SetIamDataNone(details, inventory) == details

\* ManagedPolicyDetails.set_iam_data: the policies after the call
SetIamDataAll(details, inventory) ==
    [k \in 1..Len(details) |-> PolicySetIamData(details[k], inventory)]

\* {policy.policy_id: report(policy) for policy in self.policy_details}: a
\* later policy with the same id replaces an earlier one
LastWithId(details, id) ==
    CHOOSE k \in 1..Len(details) :
        /\ details[k].policy_id = id
        /\ \A j \in (k + 1)..Len(details) : details[j].policy_id # id

\* ManagedPolicyDetails.json
CollectionJson(details) ==
    [id \in { details[k].policy_id : k \in 1..Len(details) } |->
        json(details[LastWithId(details, id)])]

\* ManagedPolicyDetails.json_large
CollectionJsonLarge(details) ==
    [id \in { details[k].policy_id : k \in 1..Len(details) } |->
        json_large(details[LastWithId(details, id)])]

----------------------------------------------------------------------------
(* The inputs a caller supplies *)

Origins == { <<NameAdmin, ArnAws>>, <<NameCustom, ArnCustomer>> }
Arns == { o[2] : o \in Origins }
Paths == { PathRoot, PathServiceRole, PathServiceRoleNoSlash, PathTeam }

\* records for a directly constructed ManagedPolicy
PolicyInputs ==
    { PolicyDetail(o[1], id, o[2], path, versions) :
        o \in Origins, id \in {IdOne, IdTwo}, path \in Paths,
        versions \in VersionListsWithDefault \cup VersionListsWithoutDefault }

\* records whose version list is one with a default
AttachmentInputs ==
    { d \in PolicyInputs :
        d.PolicyVersionList = Some(<<Version("ReadOnly", "False"), Version("Admin", "True")>>) }

\* records for a collection: AWS-managed ones carry the first id, customer
\* ones the second; the version list has a default or is absent
CollectionInputs ==
    { d \in PolicyInputs :
        /\ d.PolicyId = (IF d.Arn = ArnAws THEN IdOne ELSE IdTwo)
        /\ d.PolicyVersionList \in
               { None, Some(<<Version("ReadOnly", "False"), Version("Admin", "True")>>) } }

RECURSIVE SeqsUpTo(_, _)
SeqsUpTo(S, n) ==
    IF n = 0 THEN {<<>>}
    ELSE {<<>>} \cup { <<x>> \o t : x \in S, t \in SeqsUpTo(S, n - 1) }

\* inventories with roles only
RoleInventories == { i \in Inventories : i.groups = <<>> /\ i.users = <<>> }

\* inventories with one role and nothing else
OneRoleInventories == { i \in RoleInventories : Len(i.roles) = 1 }

----------------------------------------------------------------------------
(* State machines *)

Init ==
    /\ state = "none"
    /\ policy_details = <<>>
    /\ iam_data = EmptyIamData
    /\ held = None
    /\ mp = None
    /\ call = [op |-> "start"]
    /\ ret = Return(None)
    /\ lastSet = None
    /\ returned = [arn \in Arns |-> {}]

collectionVars == <<state, policy_details, iam_data, held, returned>>

(* A ManagedPolicy the caller constructs and uses directly *)

\* ManagedPolicy(policy_detail, exclusions, severity=severity)
NewManagedPolicy(records, severities) ==
    /\ call.op = "start"
    /\ \E policy_detail \in records,
          exclusions \in ExclusionInputs \cup {NotExclusions},
          severity \in severities :
        /\ LET r == ManagedPolicyInit(policy_detail, exclusions, severity)
           IN  /\ mp' = IF Raised(r) THEN None ELSE Some(r.value)
               /\ ret' = IF Raised(r) THEN r ELSE Return(None)
        /\ call' = [op |-> "ManagedPolicy", policy_detail |-> policy_detail,
                    exclusions |-> exclusions, severity |-> severity]
        /\ UNCHANGED <<collectionVars, lastSet>>

\* policy.set_iam_data(inventory)
MPSetIamData(inventories) ==
    /\ mp # None
    /\ \E inventory \in inventories :
        /\ mp' = Some(PolicySetIamData(mp[1], inventory))
        /\ call' = [op |-> "set_iam_data", iam_data |-> inventory]
        /\ ret' = Return(None)
        /\ lastSet' = Some(inventory)
        /\ UNCHANGED collectionVars

\* policy.getAttached
MPGetAttached ==
    /\ mp # None
    /\ call' = [op |-> "getAttached"]
    /\ ret' = Return(getAttached(mp[1]))
    /\ UNCHANGED <<collectionVars, mp, lastSet>>

\* policy.json
MPJson ==
    /\ mp # None
    /\ call' = [op |-> "json"]
    /\ ret' = Return(json(mp[1]))
    /\ UNCHANGED <<collectionVars, mp, lastSet>>

\* policy.json_large
MPJsonLarge ==
    /\ mp # None
    /\ call' = [op |-> "json_large"]
    /\ ret' = Return(json_large(mp[1]))
    /\ UNCHANGED <<collectionVars, mp, lastSet>>

\* the attachment cross-reference of one policy, over every inventory
NextAttachment ==
    \/ NewManagedPolicy(AttachmentInputs, {None})
    \/ MPSetIamData(Inventories)
    \/ MPGetAttached
    \/ MPJson

SpecAttachment == Init /\ [][NextAttachment]_vars

\* construction and the two reports of one policy, over every record and
\* every severity filter
NextPolicy ==
    \/ NewManagedPolicy(PolicyInputs, SeverityInputs)
    \/ MPSetIamData(RoleInventories)
    \/ MPGetAttached
    \/ MPJson
    \/ MPJsonLarge

SpecPolicy == Init /\ [][NextPolicy]_vars

(* A ManagedPolicyDetails collection *)

\* ManagedPolicyDetails(policy_details, exclusions, severity=severity)
Construct ==
    /\ call.op = "start"
    /\ \E records \in SeqsUpTo(CollectionInputs, MaxRecords),
          exclusions \in ExclusionInputs \cup {NotExclusions},
          severity \in {None, Some(<<"PrivilegeEscalation">>)} :
        /\ LET r == ManagedPolicyDetailsInit(records, exclusions, severity)
           IN  /\ state' = IF Raised(r) THEN "failed" ELSE "constructed"
               /\ policy_details' = IF Raised(r) THEN <<>> ELSE r.value
               /\ ret' = IF Raised(r) THEN r ELSE Return(None)
        /\ call' = [op |-> "ManagedPolicyDetails", policy_details |-> records,
                    exclusions |-> exclusions, severity |-> severity]
        /\ UNCHANGED <<iam_data, held, mp, lastSet, returned>>

\* collection.set_iam_data(inventory)
SetIamData ==
    /\ state = "constructed"
    /\ \E inventory \in OneRoleInventories :
        /\ iam_data' = inventory
        /\ policy_details' = SetIamDataAll(policy_details, inventory)
        /\ call' = [op |-> "set_iam_data", iam_data |-> inventory]
        /\ ret' = Return(None)
        /\ lastSet' = Some(inventory)
        /\ UNCHANGED <<state, held, mp, returned>>

\* collection.get_policy_detail(arn); the caller keeps the reference
GetPolicyDetail ==
    /\ state = "constructed"
    /\ \E arn \in Arns :
        /\ LET r == get_policy_detail(policy_details, arn)
           IN  /\ ret' = r
               /\ held' = IF Raised(r) THEN held ELSE Some(r.value)
               /\ returned' = IF Raised(r) THEN returned
                              ELSE [returned EXCEPT ![arn] = @ \cup {r.value}]
        /\ call' = [op |-> "get_policy_detail", arn |-> arn]
        /\ UNCHANGED <<state, policy_details, iam_data, mp, lastSet>>

\* collection.json
Json ==
    /\ state = "constructed"
    /\ call' = [op |-> "json"]
    /\ ret' = Return(CollectionJson(policy_details))
    /\ UNCHANGED <<collectionVars, mp, lastSet>>

\* collection.json_large
JsonLarge ==
    /\ state = "constructed"
    /\ call' = [op |-> "json_large"]
    /\ ret' = Return(CollectionJsonLarge(policy_details))
    /\ UNCHANGED <<collectionVars, mp, lastSet>>

\* getAttached on the policy the caller got from get_policy_detail
HeldGetAttached ==
    /\ held # None
    /\ call' = [op |-> "held.getAttached"]
    /\ ret' = Return(getAttached(policy_details[held[1]]))
    /\ UNCHANGED <<collectionVars, mp, lastSet>>

\* json on the policy the caller got from get_policy_detail
HeldJson ==
    /\ held # None
    /\ call' = [op |-> "held.json"]
    /\ ret' = Return(json(policy_details[held[1]]))
    /\ UNCHANGED <<collectionVars, mp, lastSet>>

Next ==
    \/ Construct
    \/ SetIamData
    \/ GetPolicyDetail
    \/ Json
    \/ JsonLarge
    \/ HeldGetAttached
    \/ HeldJson

Spec == Init /\ [][Next]_vars

----------------------------------------------------------------------------
(* Properties *)

\* s begins with the fragments of prefix
BeginsWith(s, prefix) ==
    Len(s) >= Len(prefix) /\ SubSeq(s, 1, Len(prefix)) = prefix

\* path begins with aws-service-role, with or without a leading slash
ServiceRolePrefixed(path) ==
    \/ BeginsWith(path, <<"aws-service-role">>)
    \/ BeginsWith(path, <<"/", "aws-service-role">>)

\* some configured rule matches one of name, id, path
SomeRuleMatches(exclusions, name, id, path) ==
    \E rule \in exclusions.policies, x \in {name, id, path} : GlobMatch(x, rule)

\* the arn has the AWS-managed shape
AwsManagedArn(arn) == BeginsWith(arn, <<"arn:aws:iam::", "aws", ":policy/">>)

\* the display names, in inventory order, of the principals of one category
\* that reference the policy id under the key its origin selects
RECURSIVE NamesReferencing(_, _, _)
NamesReferencing(principals, id, aws) ==
    IF principals = <<>>
    THEN <<>>
    ELSE LET p == Head(principals)
             refs == IF aws THEN p.aws_managed_policies ELSE p.customer_managed_policies
         IN  (IF id \in refs THEN <<p.name>> ELSE <<>>)
             \o NamesReferencing(Tail(principals), id, aws)

ExpectedAttached(policy, inventory) ==
    [category \in {"roles", "groups", "users"} |->
        NamesReferencing(inventory[category], policy.policy_id, AwsManagedArn(policy.arn))]

EmptyAttached == [roles |-> <<>>, groups |-> <<>>, users |-> <<>>]

\* the version record a document must come from: the first flagged default
HasDefault(versions) ==
    \E k \in 1..Len(versions) : versions[k].IsDefaultVersion = "True"

FirstDefault(versions) ==
    CHOOSE k \in 1..Len(versions) :
        /\ versions[k].IsDefaultVersion = "True"
        /\ \A j \in 1..(k - 1) : versions[j].IsDefaultVersion # "True"

SuppliedVersions(policy_detail) ==
    IF policy_detail.PolicyVersionList = None THEN <<>> ELSE policy_detail.PolicyVersionList[1]

\* C1: an excluded policy's getAttached returns exactly {roles: [], groups: [],
\* users: []}, whatever the inventory and however often it was replaced.
C1_ExcludedAttachedIsEmptyLists ==
    (mp # None /\ mp[1].is_excluded /\ call.op = "getAttached")
        => ret.value = EmptyAttached

\* C2: a constructed policy is flagged excluded exactly when a rule matches
\* its name, id or path, or its path begins with aws-service-role with or
\* without a leading slash.
C2_IsExcludedIff ==
    mp # None =>
        (mp[1].is_excluded <=>
            \/ SomeRuleMatches(mp[1].exclusions, mp[1].policy_name, mp[1].policy_id, mp[1].path)
            \/ ServiceRolePrefixed(mp[1].path))

\* C3: a constructed collection retains, in input order, exactly the records
\* whose path is not aws-service-role prefixed and whose name, id and path
\* no rule matches.
C3_RetainedAreTheUnexcluded ==
    (call.op = "ManagedPolicyDetails" /\ state = "constructed") =>
        LET Keep(d) == /\ ~ServiceRolePrefixed(d.Path)
                       /\ ~SomeRuleMatches(call.exclusions, d.PolicyName, d.PolicyId, d.Path)
        IN  [k \in 1..Len(policy_details) |-> policy_details[k].policy_detail]
                = SelectSeq(call.policy_details, Keep)

C3_Witness ==
    /\ call.op = "ManagedPolicyDetails"
    /\ state = "constructed"
    /\ call.exclusions.policies = {}
    /\ Len(call.policy_details) = 2
    /\ call.policy_details[1].Path = PathServiceRoleNoSlash
    /\ Len(policy_details) = 1

\* the severity filter names the label, compared without regard to case
FilterNames(severity, label) ==
    \E i \in 1..Len(severity) : lower(severity[i]) = lower(label)

\* C4: in json and json_large every category carries its label and its
\* description, and the document's findings when the filter is empty or names
\* the label case-insensitively, an empty list otherwise.
C4_FindingsFollowSeverityFilter ==
    (mp # None /\ call.op \in {"json", "json_large"}) =>
        LET categories == IF call.op = "json" THEN BaselineCategories ELSE ExtendedCategories
        IN  \A i \in 1..Len(categories) :
                LET c == categories[i]
                    entry == ret.value[c]
                IN  /\ entry.severity = ISSUE_SEVERITY(c)
                    /\ entry.description = RISK_DEFINITION(c)
                    /\ entry.findings =
                         IF mp[1].severity = <<>> \/ FilterNames(mp[1].severity, ISSUE_SEVERITY(c))
                         THEN DocumentFindings(mp[1].policy_document, FindingsProperty(c))
                         ELSE <<>>

C4_Witness ==
    /\ mp # None
    /\ call.op = "json_large"
    /\ mp[1].severity = <<"bogus", "infrastructuremodification", "DataExfiltration">>
    /\ ret.value["DataExfiltration"].findings # <<>>
    /\ ret.value["InfrastructureModification"].findings # <<>>
    /\ ret.value["PrivilegeEscalation"].findings = <<>>
    /\ DocumentFindings(mp[1].policy_document, "allows_privilege_escalation") # <<>>

\* C5: once the collection's set_iam_data was called, the collection and
\* every retained policy hold its latest argument, and an attachment query
\* or report on a policy, also one the caller obtained earlier, is computed
\* from it.
C5_LatestInventoryEverywhere ==
    (state = "constructed" /\ lastSet # None) =>
        /\ iam_data = lastSet[1]
        /\ \A k \in 1..Len(policy_details) : policy_details[k].iam_data = lastSet[1]
        /\ call.op = "held.getAttached" =>
               ret.value = ExpectedAttached(policy_details[held[1]], lastSet[1])
        /\ call.op = "held.json" =>
               ret.value.AttachedTo = ExpectedAttached(policy_details[held[1]], lastSet[1])
        /\ call.op \in {"json", "json_large"} =>
               \A k \in 1..Len(policy_details) :
                   \E id \in DOMAIN ret.value :
                       /\ id = policy_details[k].policy_id
                       /\ ret.value[id].AttachedTo
                            = ExpectedAttached(policy_details[LastWithId(policy_details, id)],
                                               lastSet[1])

C5_Witness ==
    /\ state = "constructed"
    /\ lastSet # None
    /\ call.op = "held.getAttached"
    /\ Len(policy_details) = 2
    /\ held = Some(2)
    /\ ret.value.roles # <<>>

\* what the exclusion filter of the collection lets through
NotDropped(d, exclusions) ==
    /\ ~ServiceRolePrefixed(d.Path)
    /\ ~SomeRuleMatches(exclusions, d.PolicyName, d.PolicyId, d.Path)

\* C6 as stated: construction fails whenever any supplied record has no
\* version flagged default, and whenever the exclusions object is invalid.
C6_FailsOnAnyRecordWithoutDefault ==
    (call.op = "ManagedPolicyDetails"
        /\ \/ ~IsExclusions(call.exclusions)
           \/ \E k \in 1..Len(call.policy_details) :
                  ~HasDefault(SuppliedVersions(call.policy_details[k])))
        => state = "failed"

\* C6 amended: construction fails, leaving no collection, whenever a supplied
\* record that the exclusion filter does not drop has no version flagged
\* default, and whenever the exclusions object is invalid.
C6_FailsOnRetainedRecordWithoutDefault ==
    (call.op = "ManagedPolicyDetails"
        /\ \/ ~IsExclusions(call.exclusions)
           \/ \E k \in 1..Len(call.policy_details) :
                  /\ NotDropped(call.policy_details[k], call.exclusions)
                  /\ ~HasDefault(SuppliedVersions(call.policy_details[k])))
        => /\ state = "failed"
           /\ Raised(ret)
           /\ policy_details = <<>>

C6_Witness ==
    /\ call.op = "ManagedPolicyDetails"
    /\ state = "failed"
    /\ IsExclusions(call.exclusions)
    /\ Len(call.policy_details) = 2
    /\ NotDropped(call.policy_details[1], call.exclusions)
    /\ HasDefault(SuppliedVersions(call.policy_details[1]))
    /\ NotDropped(call.policy_details[2], call.exclusions)
    /\ ~HasDefault(SuppliedVersions(call.policy_details[2]))

\* C7: a constructed policy's one document is built from the Document of the
\* first version flagged default; construction fails when the version list is
\* absent, empty or has no version flagged default.
C7_DocumentIsFirstDefault ==
    /\ mp # None =>
           LET versions == SuppliedVersions(mp[1].policy_detail)
           IN  /\ HasDefault(versions)
               /\ mp[1].policy_document = PolicyDocument(versions[FirstDefault(versions)].Document)
    /\ (call.op = "ManagedPolicy" /\ ~HasDefault(SuppliedVersions(call.policy_detail)))
           => (mp = None /\ Raised(ret))

C7_Witness ==
    /\ mp # None
    /\ LET versions == SuppliedVersions(mp[1].policy_detail)
       IN  /\ Cardinality({ k \in 1..Len(versions) : versions[k].IsDefaultVersion = "True" }) = 2
           /\ FirstDefault(versions) = 2
           /\ mp[1].policy_document.Document = "ReadOnly"

\* C8: get_policy_detail raises not-found when no retained policy has the
\* arn, returns the first retained policy with it otherwise, and never
\* returns two different objects for one arn.
C8_LookupFirstOrNotFound ==
    /\ call.op = "get_policy_detail" =>
           LET matches == { k \in 1..Len(policy_details) : policy_details[k].arn = call.arn }
           IN  IF matches = {}
               THEN ret = Raise("NotFoundException")
               ELSE /\ ~Raised(ret)
                    /\ ret.value \in matches
                    /\ \A k \in matches : ret.value <= k
                    /\ held = Some(ret.value)
    /\ \A arn \in Arns : Cardinality(returned[arn]) <= 1

C8_Witness ==
    /\ call.op = "get_policy_detail"
    /\ lastSet # None
    /\ Len(policy_details) = 2
    /\ policy_details[1].arn = call.arn
    /\ policy_details[2].arn = call.arn
    /\ ret = Return(1)

\* C9: for a policy that is not excluded, getAttached lists per category the
\* display names of exactly the principals that reference the policy id
\* under the key of the policy's origin, in inventory order.
C9_AttachedAreTheReferencing ==
    (mp # None /\ ~mp[1].is_excluded /\ call.op = "getAttached")
        => ret.value = ExpectedAttached(mp[1], mp[1].iam_data)

C9_Witness ==
    /\ mp # None
    /\ ~mp[1].is_excluded
    /\ call.op = "getAttached"
    /\ mp[1].arn = ArnCustomer
    /\ Len(mp[1].iam_data.groups) = 2
    /\ mp[1].iam_data.groups[1].name = "carol"
    /\ mp[1].iam_data.groups[2].aws_managed_policies = {mp[1].policy_id}
    /\ mp[1].iam_data.groups[2].customer_managed_policies = {}
    /\ ret.value = [roles |-> <<>>, groups |-> <<"carol">>, users |-> <<>>]

\* C10: every policy a constructed collection retains has is_excluded false,
\* and every report of the collection's json and json_large mappings carries
\* is_excluded false and an AttachedTo with exactly the keys roles, groups
\* and users.
C10_RetainedAreNotExcluded ==
    state = "constructed" =>
        /\ \A k \in 1..Len(policy_details) : ~policy_details[k].is_excluded
        /\ call.op \in {"json", "json_large"} =>
               \A id \in DOMAIN ret.value :
                   /\ ret.value[id].is_excluded = FALSE
                   /\ DOMAIN ret.value[id].AttachedTo = {"roles", "groups", "users"}

C10_Witness ==
    /\ state = "constructed"
    /\ call.op = "json_large"
    /\ lastSet # None
    /\ Len(policy_details) = 2
    /\ policy_details[1].exclusions.policies # {}
    /\ Cardinality(DOMAIN ret.value) = 2
====
